---- MODULE Spec2Model ----
(***************************************************************************)
(* run_on_filechange: the debounced restart loop of src/main.rs.           *)
(*                                                                         *)
(* The supervisor (main) parses its arguments, sets up the watcher and     *)
(* then consumes the event channel one item at a time.  An accepted        *)
(* trigger terminates the previous child (SIGTERM to its process group,    *)
(* wait, 700 ms sleep) and spawns /bin/sh -c <command> as the leader of a  *)
(* new process group.                                                      *)
(*                                                                         *)
(* Time is in milliseconds.  An Instant is opaque to the program: the only *)
(* thing main reads from last_event is t.elapsed(), so last_event is       *)
(* modelled by the time elapsed since it was taken, saturating just above  *)
(* the debounce window.  Option<T> is modelled as a set with at most one   *)
(* element: None is {} and Some(x) is {x}.                                 *)
(***************************************************************************)
EXTENDS Integers, Sequences, FiniteSets

\* ------------------------------------------------------------------ bounds

\* Most directory arguments on the command line.
MaxDirs == 2

\* Most items waiting in the channel (the channel of the code is unbounded).
MaxQueue == 1

\* Largest process id of the process table; pid 1 is the supervisor.
MaxPid == 3

\* ----------------------------------------------------- program constants

\* let debounce = Duration::from_millis(8_000);
Debounce == 8000

\* std::thread::sleep(Duration::from_millis(700));
Grace == 700

\* The supervisor's own process id (and process group).
Supervisor == 1

\* ------------------------------------------------------------- the inputs

\* notify::EventKind, and the Err item the channel can deliver instead.
EventKinds == {"Create", "Modify", "Remove", "Other"}

WatcherError == "Error"

Items == EventKinds \cup {WatcherError}

\* The amounts by which the clock is observed to advance.
Steps == {700, 7999, 8000}

Pids == 1..MaxPid

None == {}

Some(x) == {x}

Get(o) == CHOOSE x \in o : TRUE

Min(a, b) == IF a < b THEN a ELSE b

\* Elapsed times saturate one above the largest value the code compares with.
ElapsedCap == Debounce + 1

SleepCap == Grace + 1

\* Sequences of booleans of length 0..n: for each directory argument, whether
\* PathBuf::is_dir() holds of it.
RECURSIVE BoolSeqs(_)
BoolSeqs(n) ==
  IF n = 0 THEN {<<>>}
  ELSE LET shorter == BoolSeqs(n - 1)
       IN shorter \cup {Append(s, b) : s \in {t \in shorter : Len(t) = n - 1}, b \in BOOLEAN}

\* ---------------------------------------------------------------- state

VARIABLES
  has_cmd,      \* args.next() is Some: a command argument was given
  paths,        \* the directory arguments, each by its is_dir()
  pc,           \* where main is
  exit_code,    \* None while main runs, Some(code) once the process ended
  exit_cause,   \* what ended main ("" while it runs)
  watcher,      \* the RecommendedWatcher exists and watches the paths
  queue,        \* the channel: items sent by the watcher, not yet received
  closed,       \* every Sender of the channel has been dropped
  last_event,   \* Option<Instant>, by its elapsed()
  child,        \* Option<Child>, by the leader's pid
  c,            \* the Child taken out of `child` inside the if-let (line 78)
  since_reap,   \* time since c.wait() returned, None outside a restart
  procs,        \* the process table
  sent,         \* the target of the kill() of the restart in progress
  handled,      \* what the loop did with the item it received last
  qstamp,       \* history, kept by SpecStamped: for each item of the channel,
                \* whether it was sent inside the debounce window
  kill_err,     \* the kill() of the restart in progress returned an error
  tally         \* accepted triggers minus spawn attempts, and minus Terminates

vars == <<has_cmd, paths, pc, exit_code, exit_cause, watcher, queue, closed,
          last_event, child, c, since_reap, procs, sent, handled, qstamp, kill_err, tally>>

FreeProc == [st |-> "free", pgid |-> 0, kind |-> "none", term |-> FALSE]

Live(ps, p) == ps[p].st # "free"

\* A pid the kernel can hand out: not a live process, not a live group's id.
\* Pids are interchangeable, so the kernel is taken to hand out the lowest one.
Allocatable(ps, p) ==
  /\ p # Supervisor
  /\ ~Live(ps, p)
  /\ \A q \in Pids : Live(ps, q) => ps[q].pgid # p

NextPid(ps) ==
  {p \in Pids : Allocatable(ps, p) /\ \A q \in Pids : Allocatable(ps, q) => p <= q}

\* `handled` records the branch of the loop body taken for the last item
\* ("error", "ignored", "debounced", "accepted") with, for an accepted trigger,
\* the time since the previous accepted one; once line 78 has run it records
\* whether there was a child to terminate ("restart") or none ("start").
NotYet == [outcome |-> "", gap |-> None, sent_in_window |-> FALSE]

Init ==
  /\ has_cmd \in BOOLEAN
  /\ paths \in BoolSeqs(MaxDirs)
  /\ (~has_cmd => paths = <<>>)
  /\ pc = "parse"
  /\ exit_code = None
  /\ exit_cause = ""
  /\ watcher = FALSE
  /\ queue = <<>>
  /\ closed = FALSE
  /\ last_event = None
  /\ child = None
  /\ c = None
  /\ since_reap = None
  /\ procs = [p \in Pids |->
                IF p = Supervisor
                THEN [st |-> "running", pgid |-> Supervisor, kind |-> "supervisor",
                      term |-> FALSE]
                ELSE FreeProc]
  /\ sent = None
  /\ handled = NotYet
  /\ qstamp = <<>>
  /\ kill_err = FALSE
  /\ tally = [owed_spawns |-> 0, owed_terminates |-> 0]

\* std::process::exit(code), or main returning: the process ends.
Exit(code, cause) ==
  /\ pc' = "done"
  /\ exit_code' = Some(code)
  /\ exit_cause' = cause

\* ------------------------------------------------------------- startup

\* Lines 26-35: the command argument and the directory arguments.
ParseCli ==
  /\ pc = "parse"
  /\ IF ~has_cmd THEN Exit(1, "usage")
     ELSE IF paths = <<>> THEN Exit(1, "no_dirs")
     ELSE /\ pc' = "validate"
          /\ UNCHANGED <<exit_code, exit_cause>>
  /\ UNCHANGED <<has_cmd, paths, watcher, queue, closed, last_event, child, c,
                 since_reap, procs, sent, handled, qstamp, kill_err, tally>>

\* Mutant: only the first path is validated.
AllDirsFirstOnly(ps) == ps[1]

\* Lines 38-43: every path must be a directory.
AllDirs(ps) == \A i \in 1..Len(ps) : ps[i]

ValidatePaths ==
  /\ pc = "validate"
  /\ IF ~AllDirs(paths) THEN Exit(1, "not_a_directory")
     ELSE /\ pc' = "setup"
          /\ UNCHANGED <<exit_code, exit_cause>>
  /\ UNCHANGED <<has_cmd, paths, watcher, queue, closed, last_event, child, c,
                 since_reap, procs, sent, handled, qstamp, kill_err, tally>>

\* Lines 46-51: RecommendedWatcher::new(..)? and watcher.watch(p, ..)? for each
\* path; either can fail, and `?` returns the error from main (exit code 1).
WatcherSetup ==
  /\ pc = "setup"
  /\ \E outcome \in {"ok", "new_failed", "watch_failed"} :
       IF outcome = "ok"
       THEN /\ watcher' = TRUE
            /\ pc' = "recv"
            /\ UNCHANGED <<exit_code, exit_cause>>
       ELSE /\ watcher' = FALSE
            /\ Exit(1, outcome)
  /\ UNCHANGED <<has_cmd, paths, queue, closed, last_event, child, c,
                 since_reap, procs, sent, handled, qstamp, kill_err, tally>>

\* ------------------------------------------------------ the environment

\* The clock advances by d: every elapsed time grows, up to its cap.  The
\* step of the grace period is sampled while a sleep is pending and not yet
\* over, where the elapsed time is compared with it; the two steps around the
\* debounce threshold are sampled everywhere.
Tick(d) ==
  /\ pc \in {"recv", "wait", "sleep", "spawn", "terminate"}
  /\ last_event # None \/ since_reap # None
  /\ d = Grace => since_reap # None /\ Get(since_reap) < Grace
  /\ last_event' = {Min(t + d, ElapsedCap) : t \in last_event}
  /\ since_reap' = {Min(t + d, SleepCap) : t \in since_reap}
  /\ UNCHANGED <<has_cmd, paths, pc, exit_code, exit_cause, watcher, queue,
                 closed, child, c, procs, sent, handled, qstamp, kill_err, tally>>

\* The moment lies inside the debounce window of the last accepted trigger.
InWindow(le) == le # None /\ Get(le) < Debounce

\* The watcher's thread sends an event, or an error, into the channel.  The
\* item carries no time.
Enqueue(item) ==
  /\ watcher
  /\ pc # "done"
  /\ ~closed
  /\ Len(queue) < MaxQueue
  /\ queue' = Append(queue, item)
  /\ qstamp' = Append(qstamp, FALSE)
  /\ UNCHANGED <<has_cmd, paths, pc, exit_code, exit_cause, watcher, closed,
                 last_event, child, c, since_reap, procs, sent, handled,
                 kill_err, tally>>

\* The same step, with the history of when the item was sent: qstamp notes
\* whether that moment lies inside the debounce window.
EnqueueStamped(item) ==
  /\ watcher
  /\ pc # "done"
  /\ ~closed
  /\ Len(queue) < MaxQueue
  /\ queue' = Append(queue, item)
  /\ qstamp' = Append(qstamp, InWindow(last_event))
  /\ UNCHANGED <<has_cmd, paths, pc, exit_code, exit_cause, watcher, closed,
                 last_event, child, c, since_reap, procs, sent, handled,
                 kill_err, tally>>

\* The watcher's thread ends and drops the Sender: rx.recv() returns Err once
\* the channel is empty.
CloseChannel ==
  /\ watcher
  /\ pc # "done"
  /\ ~closed
  /\ closed' = TRUE
  /\ UNCHANGED <<has_cmd, paths, pc, exit_code, exit_cause, watcher, queue,
                 last_event, child, c, since_reap, procs, sent, handled, qstamp, kill_err, tally>>

\* A process of a spawned command ends by itself or on a signal.  The leader
\* is the supervisor's child and stays a zombie until it is waited for; a
\* descendant is reaped by its own parent or by init.
ProcExit(p) ==
  /\ pc # "done"
  /\ p # Supervisor
  /\ procs[p].st = "running"
  /\ procs' = [procs EXCEPT ![p] =
                 IF procs[p].kind = "leader"
                 THEN [procs[p] EXCEPT !.st = "zombie"]
                 ELSE FreeProc]
  /\ UNCHANGED <<has_cmd, paths, pc, exit_code, exit_cause, watcher, queue,
                 closed, last_event, child, c, since_reap, sent, handled, qstamp, kill_err, tally>>

\* The spawned command forks: the new process inherits the group.
ProcFork(p, q) ==
  /\ pc # "done"
  /\ procs[p].st = "running"
  /\ procs[p].kind = "leader"
  /\ q \in NextPid(procs)
  /\ procs' = [procs EXCEPT ![q] =
                 [st |-> "running", pgid |-> procs[p].pgid, kind |-> "descendant",
                  term |-> FALSE]]
  /\ UNCHANGED <<has_cmd, paths, pc, exit_code, exit_cause, watcher, queue,
                 closed, last_event, child, c, since_reap, sent, handled, qstamp, kill_err, tally>>

\* A descendant moves to a process group of its own (setsid, setpgid(0, 0)).
ProcDetach(p) ==
  /\ pc # "done"
  /\ procs[p].st = "running"
  /\ procs[p].kind = "descendant"
  /\ procs[p].pgid # p
  /\ procs' = [procs EXCEPT ![p].pgid = p]
  /\ UNCHANGED <<has_cmd, paths, pc, exit_code, exit_cause, watcher, queue,
                 closed, last_event, child, c, since_reap, sent, handled, qstamp, kill_err, tally>>

\* ------------------------------------------------------- the event loop

\* Mutant: the kind of the event is not looked at.
TriggerKindAny(kind) == TRUE

\* Lines 61-64: matches!(kind, Create(_) | Modify(_) | Remove(_)).
TriggerKind(kind) == kind \in {"Create", "Modify", "Remove"}

\* Mutant: the comparison of the debounce test is inverted.
DebounceAcceptsInverted(le) == le = None \/ Get(le) < Debounce

\* Mutant: an event exactly 8000 ms after the last trigger is still rejected.
DebounceAcceptsStrict(le) == le = None \/ Get(le) > Debounce

\* Lines 69-73: no previous trigger, or not (t.elapsed() < debounce).
DebounceAccepts(le) == le = None \/ ~(Get(le) < Debounce)

\* Mutant: a watcher error is returned from main like the other errors.
OnWatcherErrorFatal ==
  /\ pc' = "done"
  /\ exit_code' = Some(1)
  /\ exit_cause' = "watcher_error"
  /\ UNCHANGED last_event

\* Line 103: the error is logged and the loop goes on.
OnWatcherError ==
  /\ pc' = "recv"
  /\ UNCHANGED <<exit_code, exit_cause, last_event>>

\* Mutant: break in place of continue.
ContinueAsBreak ==
  /\ Exit(0, "closed")
  /\ UNCHANGED last_event

\* Mutant: a discarded event restarts the quiet window.
ContinueRestamped ==
  /\ pc' = "recv"
  /\ last_event' = Some(0)
  /\ UNCHANGED <<exit_code, exit_cause>>

\* Lines 65 and 71: continue.
Continue ==
  /\ pc' = "recv"
  /\ UNCHANGED <<exit_code, exit_cause, last_event>>

\* Mutant: the trigger is noted and the restart is left out.
AcceptWithoutRestart ==
  /\ last_event' = Some(0)
  /\ pc' = "recv"
  /\ UNCHANGED <<exit_code, exit_cause>>

\* Line 74: last_event = Some(Instant::now()); the restart follows.
Accept ==
  /\ last_event' = Some(0)
  /\ pc' = "terminate"
  /\ UNCHANGED <<exit_code, exit_cause>>

\* Mutant: an item sent inside the window is judged by the time it was sent.
ElapsedAtEnqueue(le, sent_in_window) == IF sent_in_window THEN Some(0) ELSE le

\* Lines 69-70: t.elapsed() is read when the item is handled, whenever it was
\* sent.
ElapsedAtCheck(le, sent_in_window) == le

Outcome(item, le) ==
  IF item = WatcherError THEN "error"
  ELSE IF ~TriggerKind(item) THEN "ignored"
  ELSE IF ~DebounceAccepts(le) THEN "debounced"
  ELSE "accepted"

\* Lines 58-75: rx.recv() returns an item; the match on it up to the restart.
RecvEvent ==
  /\ pc = "recv"
  /\ queue # <<>>
  /\ queue' = Tail(queue)
  /\ qstamp' = Tail(qstamp)
  /\ LET item == Head(queue)
         outcome == Outcome(item, ElapsedAtCheck(last_event, Head(qstamp)))
     IN /\ CASE outcome = "error" -> OnWatcherError
            [] outcome = "accepted" -> Accept
            [] OTHER -> Continue
        /\ handled' = [outcome |-> outcome,
                       gap |-> IF outcome = "accepted" THEN last_event ELSE None,
                       sent_in_window |-> outcome = "accepted" /\ Head(qstamp)]
        /\ tally' = IF outcome = "accepted"
                    THEN [owed_spawns |-> tally.owed_spawns + 1,
                          owed_terminates |-> tally.owed_terminates + 1]
                    ELSE tally
  /\ UNCHANGED <<has_cmd, paths, watcher, closed, child, c, since_reap, procs,
                 sent, kill_err>>

\* Mutant: the child is signalled when the loop ends.
RecvClosedKillsChild ==
  /\ pc = "recv"
  /\ queue = <<>>
  /\ closed
  /\ Exit(0, "closed")
  /\ procs' = [q \in Pids |->
                 IF child # None /\ procs[q].pgid = Get(child) /\
                    procs[q].st = "running"
                 THEN [procs[q] EXCEPT !.term = TRUE] ELSE procs[q]]
  /\ UNCHANGED <<has_cmd, paths, watcher, queue, closed, last_event, child, c,
                 since_reap, sent, handled, qstamp, kill_err, tally>>

\* Mutant: the end of the loop is reported as a failure.
RecvClosedAsFailure ==
  /\ pc = "recv"
  /\ queue = <<>>
  /\ closed
  /\ pc' = "done"
  /\ exit_code' = Some(1)
  /\ exit_cause' = "closed"
  /\ UNCHANGED <<has_cmd, paths, watcher, queue, closed, last_event, child, c,
                 since_reap, procs, sent, handled, qstamp, kill_err, tally>>

\* Lines 58 and 106: rx.recv() returns Err (channel empty and closed), the loop
\* ends and main returns Ok(()).
RecvClosed ==
  /\ pc = "recv"
  /\ queue = <<>>
  /\ closed
  /\ Exit(0, "closed")
  /\ UNCHANGED <<has_cmd, paths, watcher, queue, closed, last_event, child, c,
                 since_reap, procs, sent, handled, qstamp, kill_err, tally>>

\* Mutant: the pid is not negated, so only the leader is addressed.
KillTargetLeaderOnly(pid) == pid

\* Line 79: let pgid = -(c.id() as i32).
KillTarget(pid) == -pid

\* kill(2) with SIGTERM: a positive target is one process, a negative one the
\* process group of that id, zero the caller's own group.  The signal is
\* delivered to the running processes among them (a zombie takes none); with
\* no such process the call fails (ESRCH) and the table is unchanged.
KillHit(ps, target) ==
  IF target > 0 THEN {p \in Pids : p = target}
  ELSE IF target < 0 THEN {p \in Pids : ps[p].pgid = -target}
  ELSE {p \in Pids : ps[p].pgid = ps[Supervisor].pgid}

Kill(ps, target) ==
  [p \in Pids |->
     IF p \in KillHit(ps, target) /\ ps[p].st = "running"
     THEN [ps[p] EXCEPT !.term = TRUE] ELSE ps[p]]

\* Whether kill(2) can return an error: never when a running process takes the
\* signal; always when the target names no process; and when it names zombies
\* only, the answer is the platform's (Linux returns 0, a kernel that skips
\* zombies returns ESRCH).
KillErrs(ps, target) ==
  IF \E p \in KillHit(ps, target) : ps[p].st = "running" THEN {FALSE}
  ELSE IF \E p \in KillHit(ps, target) : ps[p].st = "zombie" THEN {FALSE, TRUE}
  ELSE {TRUE}

\* Mutant: the error of kill is returned from main with `?`.
OnKillResultPropagated(err) ==
  IF err THEN Exit(1, "kill_failed")
  ELSE pc' = "wait" /\ UNCHANGED <<exit_code, exit_cause>>

\* Line 80: .ok() drops the result of kill; line 81 follows.
OnKillResult(err) == pc' = "wait" /\ UNCHANGED <<exit_code, exit_cause>>

\* Mutant: a child whose leader has exited is not terminated.
HasChildAlive(ch, ps) == ch # None /\ ps[Get(ch)].st = "running"

\* Line 78: if let Some(mut c) = child.take().
HasChild(ch, ps) == ch # None

\* Mutant: child.as_mut() in place of child.take(): the handle stays.
TerminateKeepsHandle ==
  /\ pc = "terminate"
  /\ IF HasChild(child, procs)
     THEN /\ c' = child
          /\ procs' = Kill(procs, KillTarget(Get(child)))
          /\ sent' = Some(KillTarget(Get(child)))
          /\ \E err \in KillErrs(procs, KillTarget(Get(child))) :
               /\ kill_err' = err
               /\ OnKillResult(err)
          /\ handled' = [outcome |-> "restart", gap |-> None,
                         sent_in_window |-> FALSE]
          /\ tally' = [tally EXCEPT !.owed_terminates = @ - 1]
          /\ UNCHANGED child
     ELSE /\ pc' = "spawn"
          /\ handled' = [outcome |-> "start", gap |-> None,
                         sent_in_window |-> FALSE]
          /\ UNCHANGED <<exit_code, exit_cause, child, c, procs, sent, kill_err,
                         tally>>
  /\ UNCHANGED <<has_cmd, paths, watcher, queue, qstamp, closed, last_event,
                 since_reap>>

\* Lines 78-80: child.take(); with a child, SIGTERM to its group (the result
\* of kill is dropped by .ok()).
Terminate ==
  /\ pc = "terminate"
  /\ IF HasChild(child, procs)
     THEN /\ c' = child
          /\ child' = None
          /\ procs' = Kill(procs, KillTarget(Get(child)))
          /\ sent' = Some(KillTarget(Get(child)))
          /\ \E err \in KillErrs(procs, KillTarget(Get(child))) :
               /\ kill_err' = err
               /\ OnKillResult(err)
          /\ handled' = [outcome |-> "restart", gap |-> None,
                         sent_in_window |-> FALSE]
          /\ tally' = [tally EXCEPT !.owed_terminates = @ - 1]
     ELSE /\ pc' = "spawn"
          /\ handled' = [outcome |-> "start", gap |-> None,
                         sent_in_window |-> FALSE]
          /\ UNCHANGED <<exit_code, exit_cause, child, c, procs, sent, kill_err,
                         tally>>
  /\ UNCHANGED <<has_cmd, paths, watcher, queue, qstamp, closed, last_event,
                 since_reap>>

\* Mutant: try_wait() in place of wait(): it returns at once.
WaitReturnsAtOnce(ps, p) == TRUE

\* Line 81: c.wait() blocks until the leader has exited.
WaitReturns(ps, p) == ps[p].st = "zombie"

\* wait(2) removes the exited child from the process table.
Reaped(ps, p) == [ps EXCEPT ![p] = IF ps[p].st = "zombie" THEN FreeProc ELSE ps[p]]

\* Lines 81-82: c.wait() returns and the sleep begins.
Wait ==
  /\ pc = "wait"
  /\ WaitReturns(procs, Get(c))
  /\ procs' = Reaped(procs, Get(c))
  /\ since_reap' = Some(0)
  /\ pc' = "sleep"
  /\ UNCHANGED <<has_cmd, paths, exit_code, exit_cause, watcher, queue, closed,
                 last_event, child, c, sent, handled, qstamp, kill_err, tally>>

\* Mutant: the sleep is left out.
SleepOverAtOnce(t) == TRUE

\* Line 82: thread::sleep returns no earlier than after the duration.
SleepOver(t) == t >= Grace

\* Lines 82-83: the sleep returns; c goes out of scope.
Sleep ==
  /\ pc = "sleep"
  /\ SleepOver(Get(since_reap))
  /\ c' = None
  /\ sent' = None
  /\ pc' = "spawn"
  /\ UNCHANGED <<has_cmd, paths, exit_code, exit_cause, watcher, queue, closed,
                 last_event, child, since_reap, procs, handled, qstamp, kill_err, tally>>

\* Mutant: no pre_exec, the child stays in the supervisor's group.
SpawnPgidInherited(pid, parent_pgid) == parent_pgid

\* Lines 94-98: pre_exec runs setpgid(0, 0) in the forked child, which makes
\* it the leader of a new group whose id is its own pid.
SpawnPgid(pid, parent_pgid) == pid

\* Mutant: the spawn error is dropped and the loop goes on.
OnSpawnErrorIgnored ==
  /\ pc' = "recv"
  /\ UNCHANGED <<exit_code, exit_cause, child, procs>>

\* Line 100: `?` returns the spawn error from main.
OnSpawnError ==
  /\ Exit(1, "spawn_failed")
  /\ UNCHANGED <<child, procs>>

\* Lines 86-101: Command::new("/bin/sh")...spawn()?; child = Some(tmp_child).
\* spawn() returns once the child has run pre_exec and exec, or with the error.
Spawn ==
  /\ pc = "spawn"
  /\ \/ OnSpawnError
     \/ \E p \in NextPid(procs) :
          /\ procs' = [procs EXCEPT ![p] =
                         [st |-> "running",
                          pgid |-> SpawnPgid(p, procs[Supervisor].pgid),
                          kind |-> "leader", term |-> FALSE]]
          /\ child' = Some(p)
          /\ pc' = "recv"
          /\ UNCHANGED <<exit_code, exit_cause>>
  /\ since_reap' = None
  /\ kill_err' = FALSE
  /\ tally' = [tally EXCEPT !.owed_spawns = @ - 1]
  /\ UNCHANGED <<has_cmd, paths, watcher, queue, qstamp, closed, last_event, c,
                 sent, handled>>

Next ==
  \/ ParseCli
  \/ ValidatePaths
  \/ WatcherSetup
  \/ \E d \in Steps : Tick(d)
  \/ \E item \in Items : Enqueue(item)
  \/ CloseChannel
  \/ \E p \in Pids : ProcExit(p)
  \/ \E p, q \in Pids : ProcFork(p, q)
  \/ \E p \in Pids : ProcDetach(p)
  \/ RecvEvent
  \/ RecvClosed
  \/ Terminate
  \/ Wait
  \/ Sleep
  \/ Spawn

Spec == Init /\ [][Next]_vars

\* The same program with the history of the moments the items were sent.
NextStamped ==
  \/ ParseCli
  \/ ValidatePaths
  \/ WatcherSetup
  \/ \E d \in Steps : Tick(d)
  \/ \E item \in Items : EnqueueStamped(item)
  \/ CloseChannel
  \/ \E p \in Pids : ProcExit(p)
  \/ \E p, q \in Pids : ProcFork(p, q)
  \/ \E p \in Pids : ProcDetach(p)
  \/ RecvEvent
  \/ RecvClosed
  \/ Terminate
  \/ Wait
  \/ Sleep
  \/ Spawn

SpecStamped == Init /\ [][NextStamped]_vars

\* The scheduling of the program: the main thread runs when it can (a handler
\* that is enabled is taken), and time passes.  Nothing makes a spawned
\* process exit, the watcher send, or the channel close.
Fairness ==
  /\ WF_vars(RecvEvent)
  /\ WF_vars(RecvClosed)
  /\ WF_vars(Terminate)
  /\ WF_vars(Wait)
  /\ WF_vars(Sleep)
  /\ WF_vars(Spawn)
  /\ WF_vars(\E d \in Steps : Tick(d))

SpecFair == Init /\ [][Next]_vars /\ Fairness

\* ---------------------------------------------------------------- claims

\* A step that takes an item from the channel.
Dequeues == Len(queue') < Len(queue)

\* The spawned commands' leaders that are in the process table.
Leaders == {p \in Pids : procs[p].kind = "leader" /\ Live(procs, p)}

\* C1 (state part): at most one spawned leader is in the process table, and
\* it is the one the loop holds (in `child`, or in `c` during Terminate).
C1_State ==
  /\ Cardinality(Leaders) <= 1
  /\ Cardinality(child \cup c) <= 1
  /\ Leaders \subseteq (child \cup c)

\* C1 (step part): a leader is reaped only after SIGTERM was sent to its
\* group, a new leader is spawned only when no earlier one is left and the
\* Terminate is over, and no item is taken from the channel from the start of
\* Terminate to the end of the spawn.
C1_Step ==
  /\ \A p \in Pids :
       procs[p].kind = "leader" /\ procs'[p].st = "free" => sent = Some(-p)
  /\ \A p \in Pids :
       procs[p].st = "free" /\ procs'[p].kind = "leader" =>
         Leaders = {} /\ c = None /\ pc = "spawn"
  /\ Dequeues => pc = "recv" /\ c = None /\ sent = None

\* C1: at most one child is managed at any time; a restart is SIGTERM to the
\* group, then the reap of the leader, then the spawn, and no event is taken
\* from the queue in between.
C1_AtMostOneChild == [](C1_State) /\ [][C1_Step]_vars

\* A restart has run to its end: the old child was terminated, the new one is
\* held, and the loop is back at the channel with an item waiting.
C1_Witness ==
  /\ pc = "recv"
  /\ handled.outcome = "restart"
  /\ child # None
  /\ Leaders = child
  /\ queue # <<>>

\* C2: two consecutive accepted triggers are at least 8000 ms apart, and an
\* item received less than 8000 ms after the last accepted trigger starts
\* nothing: no signal, no spawn, no new timestamp.
C2_Debounce ==
  /\ [](handled.outcome = "accepted" =>
          handled.gap = None \/ Get(handled.gap) >= 8000)
  /\ [][Dequeues /\ last_event # None /\ Get(last_event) < 8000 =>
          pc' = "recv" /\ UNCHANGED <<last_event, child, c, procs, sent>>]_vars

\* A trigger accepted exactly 8000 ms after the previous accepted one.
C2_Witness ==
  /\ handled.outcome = "accepted"
  /\ handled.gap = Some(8000)
  /\ child # None

\* C3: an item that is not a Create, Modify or Remove event changes nothing
\* and leaves the loop at the channel; a Create, Modify or Remove event
\* received with no previous trigger or at least 8000 ms after it starts the
\* restart, which signals the present child (if any) and goes on to the spawn.
C3_EventFiltering ==
  /\ [][Dequeues =>
          /\ Head(queue) \notin {"Create", "Modify", "Remove"} =>
               pc' = "recv" /\ UNCHANGED <<last_event, child, c, procs, sent>>
          /\ ( /\ Head(queue) \in {"Create", "Modify", "Remove"}
               /\ (last_event = None \/ Get(last_event) >= 8000) ) =>
               pc' = "terminate" /\ last_event' = Some(0)]_vars
  /\ [][pc = "terminate" /\ pc' # pc =>
          IF child # None
          THEN pc' = "wait" /\ sent' # None /\ c' = child
          ELSE pc' = "spawn"]_vars

\* An event of kind Other was received with a child present, long after the
\* last trigger, and nothing was started.
C3_Witness ==
  /\ pc = "recv"
  /\ handled.outcome = "ignored"
  /\ child # None
  /\ last_event # None
  /\ Get(last_event) >= 8000

\* C4: whenever the loop is about to spawn after a reap, at least 700 ms have
\* passed since the reap.
C4_GracePeriod ==
  pc = "spawn" /\ since_reap # None => Get(since_reap) >= 700

\* The loop is at the spawn exactly 700 ms after the reap.
C4_Witness ==
  /\ pc = "spawn"
  /\ since_reap = Some(700)
  /\ handled.outcome = "restart"

\* C5: the SIGTERM of a restart is delivered to every running process of the
\* leader's process group: the leader and the descendants that have not left
\* the group, whether or not the leader has already exited.
C5_GroupKill ==
  [][pc = "terminate" /\ pc' = "wait" =>
       \A q \in Pids :
         ( /\ procs[q].st = "running"
           /\ procs[q].pgid = procs[Get(child)].pgid ) => procs'[q].term]_vars

\* The leader had exited by itself before the signal was sent (a zombie takes
\* no signal), and a descendant still in its group received the signal.
C5_Witness ==
  /\ pc = "wait"
  /\ c # None
  /\ procs[Get(c)].st = "zombie"
  /\ ~procs[Get(c)].term
  /\ \E q \in Pids :
       /\ procs[q].kind = "descendant"
       /\ procs[q].st = "running"
       /\ procs[q].pgid = Get(c)
       /\ procs[q].term

\* C6: a spawn attempt that yields no child ends main with exit code 1, and
\* once main has ended nothing more is taken from the channel.
C6_SpawnFailureFatal ==
  /\ [][pc = "spawn" /\ pc' # pc /\ child' = None =>
          pc' = "done" /\ exit_code' = Some(1)]_vars
  /\ [][Dequeues => exit_code = None /\ exit_cause = ""]_vars

\* The spawn failed with an item still waiting in the channel.
C6_Witness ==
  /\ pc = "done"
  /\ exit_cause = "spawn_failed"
  /\ exit_code = Some(1)
  /\ queue # <<>>

\* C7: receiving an error item changes neither last_event nor the child nor
\* any process, sends no signal, does not end main, and leaves the loop at
\* the channel.
C7_WatcherErrorNonFatal ==
  [][Dequeues /\ Head(queue) = "Error" =>
       /\ pc' = "recv"
       /\ UNCHANGED <<last_event, child, c, procs, sent, exit_code>>]_vars

\* An error item was received while a child was running, and main goes on.
C7_Witness ==
  /\ pc = "recv"
  /\ handled.outcome = "error"
  /\ child # None
  /\ exit_code = None

\* The command line has no command, no directory, or a path that is not a
\* directory.
BadConfig ==
  \/ ~has_cmd
  \/ paths = <<>>
  \/ \E i \in 1..Len(paths) : ~paths[i]

\* C8: with a configuration error main never gets past the validation: no
\* watcher, nothing received, nothing spawned, and when it has ended the exit
\* code is 1.
C8_ConfigErrors ==
  BadConfig =>
    /\ pc \in {"parse", "validate", "done"}
    /\ ~watcher
    /\ queue = <<>>
    /\ handled = NotYet
    /\ child = None
    /\ Leaders = {}
    /\ (pc = "done" => exit_code = Some(1))

\* The second of two paths is not a directory, and main has exited with 1.
C8_Witness ==
  /\ pc = "done"
  /\ exit_code = Some(1)
  /\ Len(paths) = 2
  /\ paths[1]
  /\ ~paths[2]

\* C9 as stated: no way for main to end gives exit code 0.
C9_NoExitCodeZero == pc = "done" => exit_code # Some(0)

\* C9, amended: main ends with exit code 0 exactly when the receive loop ends
\* on the closed, empty channel; every other end is exit code 1.
C9_ExitZeroOnlyAtLoopEnd ==
  pc = "done" =>
    IF exit_cause = "closed"
    THEN exit_code = Some(0) /\ watcher /\ closed /\ queue = <<>>
    ELSE exit_code = Some(1)

\* The loop ended on the closed channel with a child still held.
C9_Witness ==
  /\ pc = "done"
  /\ exit_code = Some(0)
  /\ child # None

\* C10: a child the loop holds leads a process group of its own, which is
\* not the supervisor's, and SIGTERM newly reaches only processes of the held
\* child's group, never the supervisor.
C10_SignalScoping ==
  /\ [](\A p \in child \cup c :
          Live(procs, p) =>
            procs[p].pgid = p /\ procs[p].pgid # procs[Supervisor].pgid)
  /\ [][\A q \in Pids :
          procs'[q].term /\ ~procs[q].term =>
            /\ q # Supervisor
            /\ child # None
            /\ procs[q].pgid = procs[Get(child)].pgid
            /\ procs[q].pgid # procs[Supervisor].pgid]_vars

\* The leader was signalled while a descendant that had moved to a group of
\* its own, and the supervisor, were not.
C10_Witness ==
  /\ pc = "wait"
  /\ c # None
  /\ procs[Get(c)].term
  /\ ~procs[Supervisor].term
  /\ \E q \in Pids :
       /\ procs[q].kind = "descendant"
       /\ procs[q].st = "running"
       /\ procs[q].pgid = q
       /\ ~procs[q].term

\* C11: a Create, Modify or Remove event taken from the channel is accepted
\* exactly when there is no previous accepted trigger or at least 8000 ms have
\* passed since it (8000 accepts, 7999 rejects); the acceptance sets last_event
\* to the current time in the same step, before any signal, reap or spawn, so
\* the restart never runs without a timestamp.
C11_DebounceDecision ==
  /\ [][Dequeues /\ Head(queue) \in {"Create", "Modify", "Remove"} =>
          /\ (pc' = "terminate") <=> (last_event = None \/ Get(last_event) >= 8000)
          /\ (last_event # None /\ Get(last_event) = 8000) => pc' = "terminate"
          /\ (last_event # None /\ Get(last_event) = 7999) => pc' = "recv"
          /\ (pc' = "terminate") =>
                last_event' = Some(0) /\ UNCHANGED <<child, c, procs, sent>>]_vars
  /\ [](pc \in {"terminate", "wait", "sleep", "spawn"} => last_event # None)

\* An event was rejected and 7999 ms have passed since the accepted trigger.
C11_Witness ==
  /\ pc = "recv"
  /\ handled.outcome = "debounced"
  /\ last_event = Some(7999)
  /\ child # None

\* C12: an event that is discarded, for its kind or by the debounce test,
\* leaves last_event, the child and every process as they are, sends no
\* signal, spawns nothing and does not end main; the quiet window still runs
\* from the accepted trigger.
C12_DiscardedNoEffect ==
  [][Dequeues /\ (\/ Head(queue) \in EventKinds \ {"Create", "Modify", "Remove"}
                  \/ /\ Head(queue) \in {"Create", "Modify", "Remove"}
                     /\ last_event # None
                     /\ Get(last_event) < 8000) =>
       /\ pc' = "recv"
       /\ UNCHANGED <<last_event, child, c, procs, sent, kill_err, tally,
                      exit_code, exit_cause>>]_vars

\* An event was rejected inside the window, and the window, counted from the
\* accepted trigger, is over with the same child running.
C12_Witness ==
  /\ pc = "recv"
  /\ handled.outcome = "debounced"
  /\ last_event # None
  /\ Get(last_event) >= 8000
  /\ child # None
  /\ procs[Get(child)].st = "running"
  /\ ~procs[Get(child)].term

\* C13: when kill() returns an error, no process takes the signal, main does
\* not end, and the restart goes on as always: the loop waits until the leader
\* is reaped, sleeps at least 700 ms and then attempts the spawn.
C13_KillErrorIgnored ==
  /\ [](kill_err => pc \in {"wait", "sleep", "spawn"} /\ exit_code = None)
  /\ [][kill_err' /\ ~kill_err =>
          /\ pc = "terminate" /\ pc' = "wait"
          /\ c' = child
          /\ procs' = procs]_vars
  /\ [][kill_err /\ pc' # pc =>
          \/ /\ pc = "wait" /\ pc' = "sleep"
             /\ procs[Get(c)].st = "zombie"
             /\ procs'[Get(c)].st = "free"
          \/ /\ pc = "sleep" /\ pc' = "spawn"
             /\ Get(since_reap) >= 700
          \/ /\ pc = "spawn"
             /\ \/ pc' = "recv" /\ child' # None
                \/ pc' = "done" /\ exit_cause' = "spawn_failed"]_vars

\* kill() returned an error, the leader was reaped, the sleep is over and the
\* loop is about to spawn.
C13_Witness ==
  /\ pc = "spawn"
  /\ kill_err
  /\ handled.outcome = "restart"
  /\ since_reap # None
  /\ Get(since_reap) >= 700
  /\ exit_code = None

\* C14 as stated: under the program's scheduling every accepted trigger is
\* eventually followed by a spawn attempt, whatever the spawned processes do.
C14_AcceptLeadsToSpawn == (tally.owed_spawns > 0) ~> (tally.owed_spawns = 0)

\* The positions of the loop between an accepted trigger and its spawn.
Restarting == pc \in {"terminate", "wait", "sleep", "spawn"}

\* C15: the loop ends only when rx.recv() finds the channel closed and empty,
\* or when the spawn fails; taking an item of any kind from the channel, a
\* debounce rejection, a watcher error and a kill() (failed or not) leave the
\* loop running.
C15_LoopEnds ==
  /\ [][(pc = "recv" \/ Restarting) /\ pc' = "done" =>
          \/ /\ pc = "recv" /\ queue = <<>> /\ closed
             /\ exit_cause' = "closed"
          \/ /\ pc = "spawn" /\ child' = None
             /\ exit_cause' = "spawn_failed"]_vars
  /\ [][Dequeues => pc' \in {"recv", "terminate"}]_vars
  /\ [][sent' # sent /\ sent' # None => pc' = "wait"]_vars
  /\ [](watcher /\ pc = "done" => exit_cause \in {"closed", "spawn_failed"})

\* The loop went on after a rejected event and ended when the channel closed.
C15_Witness ==
  /\ pc = "done"
  /\ exit_cause = "closed"
  /\ handled.outcome = "debounced"
  /\ child # None

C17_ChannelCloseLeavesChild ==
  /\ [][pc = "recv" /\ pc' = "done" =>
          /\ exit_cause' = "closed"
          /\ UNCHANGED <<child, c, procs, sent, kill_err>>]_vars
  /\ [](pc = "done" /\ exit_cause = "closed" /\ child # None =>
          /\ procs[Get(child)].st \in {"running", "zombie"}
          /\ ~procs[Get(child)].term
          /\ sent = None)
  /\ [][\A q \in Pids :
          (\/ procs'[q].term /\ ~procs[q].term
           \/ procs[q].st = "zombie" /\ procs'[q].st = "free") =>
             /\ pc \in {"terminate", "wait"}
             /\ handled.outcome \in {"accepted", "restart"}]_vars

\* The loop has ended on the closed channel and the child of the last restart
\* is running, unsignalled.
C17_Witness ==
  /\ pc = "done"
  /\ exit_cause = "closed"
  /\ handled.outcome = "restart"
  /\ child # None
  /\ procs[Get(child)].st = "running"
  /\ ~procs[Get(child)].term

\* C18: every kill() addresses the group of the child the loop holds, a
\* leader the tool spawned that is still in the process table (running or
\* zombie, not reaped), none of whose group has been signalled before; the
\* same step takes the handle out of `child`; and the wait that follows is on
\* that same child.
C18_SignalOnlyOwnUnreaped ==
  /\ [][sent' # sent /\ sent' # None =>
          \E p \in Pids \ {Supervisor} :
            /\ child = Some(p)
            /\ sent' = Some(-p)
            /\ procs[p].kind = "leader"
            /\ procs[p].st \in {"running", "zombie"}
            /\ procs[p].pgid = p
            /\ \A q \in Pids : procs[q].pgid = p => ~procs[q].term
            /\ child' = None
            /\ c' = Some(p)]_vars
  /\ [][pc = "wait" /\ pc' # pc =>
          sent = Some(-Get(c)) /\ procs[Get(c)].kind = "leader"]_vars
  /\ [](sent # None => pc \in {"wait", "sleep"} /\ c # None /\
                        sent = Some(-Get(c)) /\ child = None)

\* The held child has been signalled and is waited for: its pid
\* is still its own.
C18_Witness ==
  /\ pc = "wait"
  /\ child = None
  /\ c # None
  /\ sent = Some(-Get(c))
  /\ procs[Get(c)].kind = "leader"
  /\ procs[Get(c)].st = "running"
  /\ procs[Get(c)].term
  /\ handled.outcome = "restart"

====
